---- MODULE Spec2Model ----
(***************************************************************************)
(* A model of translate.py: the flag validation, the NLLB (direct-model)   *)
(* loop, the Ollama (prompt-driven) loop with translate_with_context, the  *)
(* context window translated_context, and the document save steps; and of  *)
(* the functions apply_translation_with_formatting (SpecFormat) and        *)
(* extract_text_with_layout (SpecLayout), each as a call of its own.       *)
(*                                                                         *)
(* Text is a sequence of tokens.  A token stands for a run of characters;  *)
(* the token "translated:" stands for the 11 characters of the prefix, so  *)
(* that line[11:] is the tail of a line that starts with that token.       *)
(***************************************************************************)
EXTENDS Integers, Sequences, FiniteSets, TLC

VARIABLES
    ENABLE_OLLAMA,      \* line 10
    ENABLE_NLLB,        \* line 11
    docx_file,          \* the paragraphs of the source document (line 208)
    pc,                 \* position of the script
    exit_status,        \* "running", "0", "1" (exit(1)) or "crash" (uncaught exception)
    saved,              \* the output artifacts written by doc.save
    doc,                \* the NLLB destination document (line 216)
    doc_ollama,         \* the Ollama destination document (line 301)
    idx,                \* how many paragraphs the running for loop has consumed
    count,              \* line 218
    count_ollama,       \* line 303
    translated_context, \* line 308
    original_text,      \* lines 247, 335
    max_retries,        \* parameter of translate_with_context
    attempt,            \* loop variable of line 28
    calls,              \* subprocess.run invocations of the running translate_with_context call
    prompt,             \* the variable parts of the prompt of the last invocation
    result,             \* what the last subprocess.run returned
    translated_text,    \* what translate_with_context returned / line 341
    success,            \* lines 257, 393: what apply_translation_with_formatting returned
    log,                \* the per-unit lines written to standard output
    pdf_path,           \* the pages of the pdf, each the words extract_words gives
    merge_threshold,    \* parameter of extract_text_with_layout
    pages_left,         \* pages of the pdf the loop of line 153 has not reached
    page_num,           \* line 153
    words,              \* line 154
    word_idx,           \* how many words of the page the loop of line 166 has consumed
    current_group,      \* lines 159, 191
    results,            \* line 151
    emitted_words       \* current_group["words"] of each group appended to results

vars == <<ENABLE_OLLAMA, ENABLE_NLLB, docx_file, pc, exit_status, saved, doc,
          doc_ollama, idx, count, count_ollama, translated_context,
          original_text, max_retries, attempt, calls, prompt, result,
          translated_text, success, log, pdf_path, merge_threshold, pages_left,
          page_num, words, word_idx, current_group, results, emitted_words>>

\* the arguments and locals of extract_text_with_layout
layoutVars == <<pdf_path, merge_threshold, pages_left, page_num, words,
                word_idx, current_group, results, emitted_words>>

\* the globals of the script and the locals of its calls
scriptVars == <<ENABLE_OLLAMA, ENABLE_NLLB, docx_file, exit_status, saved, doc,
                doc_ollama, idx, count, count_ollama, translated_context,
                original_text, max_retries, attempt, calls, prompt, result,
                translated_text, success, log>>

-----------------------------------------------------------------------------
(* Bounds of the model *)

\* paragraphs of the document in Spec and SpecRetries
MaxUnits == 2
\* paragraphs of the document in SpecContext
MaxCtxUnits == 6
\* largest merge_threshold drawn in SpecLayout, next to the default
MaxThreshold == 1
\* pages and words of the pdf in SpecLayout, together
MaxPdfItems == 6
\* runs of the paragraph in SpecFormat
MaxRuns == 2
\* largest max_retries drawn in SpecRetries
MaxRetriesBound == 3

(* Program constants *)

\* default of the max_retries parameter
DefaultMaxRetries == 3
\* len(translated_context) > 5
ContextCap == 5
\* context_paragraphs[-3:]
PromptContextCap == 3

-----------------------------------------------------------------------------
(* Text *)

SP == " "
NL == "\n"
DQ == "\""
SQ == "'"
PREFIX == "translated:"
FAILMARK == "[TRANSLATION FAILED AFTER"

Whitespace == {SP, NL}

\* str.lower() on a token: the prefix tokens are the only ones with upper case
LowerTok(tok) ==
    IF tok \in {"TRANSLATED:", "Translated:"} THEN PREFIX ELSE tok

RECURSIVE LStrip(_)
LStrip(s) ==
    IF s # <<>> /\ Head(s) \in Whitespace THEN LStrip(Tail(s)) ELSE s

RECURSIVE RStrip(_)
RStrip(s) ==
    IF s # <<>> /\ s[Len(s)] \in Whitespace
    THEN RStrip(SubSeq(s, 1, Len(s) - 1))
    ELSE s

\* str.strip()
Strip(s) == RStrip(LStrip(s))

\* index of the first NL of s, 0 when there is none
RECURSIVE FirstNL(_, _)
FirstNL(s, i) ==
    IF i > Len(s) THEN 0
    ELSE IF s[i] = NL THEN i
    ELSE FirstNL(s, i + 1)

\* str.splitlines()
RECURSIVE SplitLines(_)
SplitLines(s) ==
    IF s = <<>> THEN <<>>
    ELSE LET i == FirstNL(s, 1)
         IN  IF i = 0 THEN <<s>>
             ELSE <<SubSeq(s, 1, i - 1)>> \o SplitLines(SubSeq(s, i + 1, Len(s)))

\* line.lower().startswith("translated:")
StartsWithPrefix(line) == line # <<>> /\ LowerTok(Head(line)) = PREFIX

\* s.startswith(q) and s.endswith(q) for a one-character q
Wrapped(s, q) == s # <<>> /\ Head(s) = q /\ s[Len(s)] = q

\* lines 62-65 and 348-351
StripQuotes(s) ==
    IF Wrapped(s, DQ) THEN Strip(SubSeq(s, 2, Len(s) - 1))
    ELSE IF Wrapped(s, SQ) THEN Strip(SubSeq(s, 2, Len(s) - 1))
    ELSE s

\* lines 59-67: the translation taken from a prefixed line
ExtractTranslation(line) == StripQuotes(Strip(Tail(line)))

\* the loop of lines 56-57 without its return: the last prefixed line wins
RECURSIVE LastPrefixedFrom(_, _)
LastPrefixedFrom(lines, i) ==
    IF i < 1 THEN 0
    ELSE IF StartsWithPrefix(lines[i]) THEN i
    ELSE LastPrefixedFrom(lines, i - 1)

\* the index of the first prefixed line from i on, 0 when there is none
RECURSIVE FirstPrefixed(_, _)
FirstPrefixed(lines, i) ==
    IF i > Len(lines) THEN 0
    ELSE IF StartsWithPrefix(lines[i]) THEN i
    ELSE FirstPrefixed(lines, i + 1)

\* the last prefixed line in place of the first
LastPrefixedLine(lines) == LastPrefixedFrom(lines, Len(lines))

\* lines 56-57: the line the for loop returns from, 0 when it runs through
PrefixedLine(lines) == FirstPrefixed(lines, 1)

\* lines 53-56
OutputLines(stdout) == SplitLines(Strip(stdout))

\* line 74
FailureMarker(n, text) ==
    <<FAILMARK, SP, ToString(n), SP, "RETRIES]", SP>> \o text

\* a marker that names no backend
GenericErrorMarker(text) == <<"[BACKEND ERROR]", SP>> \o text

\* line 378
BackendErrorMarker(text) == <<"[OLLAMA TRANSLATION FAILED]", SP>> \o text

\* the marker of the NLLB loop written by the Ollama loop too
SharedFormattingMarker(text) ==
    <<"[TRANSLATION ERROR - MANUAL REVIEW NEEDED]", SP>> \o text

\* line 401
OllamaFormattingMarker(text) ==
    <<"[OLLAMA FORMATTING ERROR - MANUAL REVIEW NEEDED]", SP>> \o text

\* line 265
NllbFormattingMarker(text) ==
    <<"[TRANSLATION ERROR - MANUAL REVIEW NEEDED]", SP>> \o text

\* lines 344-351: the loop's own clean-up of what translate_with_context returned
PostProcess(t) ==
    LET u == IF StartsWithPrefix(t) THEN Strip(Tail(t)) ELSE t
    IN  StripQuotes(u)

\* the failure text taken for a translation
IsFailedTranslationNever(t) == FALSE

\* line 354
IsFailedTranslation(t) == t # <<>> /\ Head(t) = FAILMARK

-----------------------------------------------------------------------------
(* The context window and the prompt *)

\* the append without the pop(0)
RecordContextNoEvict(ctx, t) == Append(ctx, t)

\* pop() in place of pop(0): the newest entry is dropped
RecordContextPopLast(ctx, t) ==
    LET a == Append(ctx, t)
    IN  IF Len(a) > 5 THEN SubSeq(a, 1, Len(a) - 1) ELSE a

\* lines 370-373: append, then pop(0) when longer than 5
RecordContext(ctx, t) ==
    LET a == Append(ctx, t)
    IN  IF Len(a) > ContextCap THEN Tail(a) ELSE a

\* a failed formatting takes the newest entry out of the window again
ContextAfterFormattingUndone(ctx, formatted) ==
    IF formatted THEN ctx ELSE SubSeq(ctx, 1, Len(ctx) - 1)

\* lines 392-410: neither the formatting nor its fallback writes to
\* translated_context
ContextAfterFormatting(ctx, formatted) == ctx

\* context_paragraphs[:3]: the oldest entries in place of the newest
FirstParagraphs(ctx) ==
    IF Len(ctx) > 3 THEN SubSeq(ctx, 1, 3) ELSE ctx

\* context_paragraphs[-3:]
LastParagraphs(ctx) ==
    IF Len(ctx) > PromptContextCap
    THEN SubSeq(ctx, Len(ctx) - PromptContextCap + 1, Len(ctx))
    ELSE ctx

\* lines 30-34: the "Context i: ..." lines, numbered from 1
ContextSection(context_paragraphs) ==
    LET shown == LastParagraphs(context_paragraphs)
    IN  [i \in 1..Len(shown) |-> [label |-> i, ctx |-> shown[i]]]

\* lines 36-43: the parts of the prompt that vary
BuildPrompt(text, context_paragraphs) ==
    [context |-> ContextSection(context_paragraphs), text |-> text]

NoPrompt == [context |-> <<>>, text |-> <<>>]

\* a retry that is made without the context
ContextParagraphsFirstOnly(window, n) == IF n = 0 THEN window ELSE <<>>

\* lines 24, 31-33 and 341: the parameter context_paragraphs is the list
\* translated_context in every iteration of the loop of line 28
ContextParagraphs(window, n) == window

-----------------------------------------------------------------------------
(* The external translation backends *)

\* the translation a backend gives for a source text: its word, marked translated
Tr(text) == <<"t">> \o Tail(text)

\* standard outputs of `ollama run` carrying a prefixed line
PrefixedOutputs(text, rich) ==
    LET t == Tr(text)
    IN  {<<PREFIX, SP>> \o t}
        \cup
        (IF rich
         THEN {<<"junk", NL, "TRANSLATED:", SP, DQ>> \o t \o <<DQ, SP, NL>>,
               <<SP, "Translated:", SQ>> \o t \o <<SQ>>,
               <<PREFIX, DQ, SQ>> \o t \o <<SQ, DQ>>,
               <<PREFIX, SP, PREFIX, SP>> \o t,
               <<PREFIX, SP>> \o t \o <<NL, PREFIX, SP, "other">>,
               <<PREFIX, SP, DQ>> \o t,
               <<PREFIX, SP, FAILMARK, SP>> \o t,
               <<PREFIX, SP>>}
         ELSE {})

\* standard outputs without a prefixed line
UnprefixedOutputs(text, rich) ==
    {<<>>}
    \cup
    (IF rich
     THEN {<<"junk", SP>> \o Tr(text),
           <<"junk", NL, SP, PREFIX, SP>> \o Tr(text)}
     ELSE {})

\* lines 46-50: what subprocess.run can return; the exit status is not checked
\* by the call (no check=True), so a failed process returns like any other
BackendResults(text, rich) ==
    [returncode : {0}, stdout : PrefixedOutputs(text, rich) \cup UnprefixedOutputs(text, rich)]
    \cup
    [returncode : {1}, stdout : {<<>>, <<PREFIX, SP>> \o Tr(text)}]

NoResult == [returncode |-> 0, stdout |-> <<>>]

-----------------------------------------------------------------------------
(* Documents *)

\* a run as add_run makes it: every attribute unset
DefaultRun ==
    [bold |-> "None", italic |-> "None", underline |-> "None",
     font_name |-> "None", font_size |-> "None", color |-> "None",
     highlight |-> "None"]

\* the runs of the i-th paragraph: styled, without runs (its text sits in a
\* hyperlink), or two runs of which the first sets bold to False
RunsOf(i) ==
    CASE i % 3 = 1 ->
           <<[DefaultRun EXCEPT !.bold = "True", !.font_name = "Arial",
                                !.font_size = "12", !.color = "GREEN"]>>
      [] i % 3 = 2 -> <<>>
      [] OTHER ->
           <<[DefaultRun EXCEPT !.bold = "False", !.italic = "True"],
             [DefaultRun EXCEPT !.bold = "True", !.underline = "True"]>>

\* the i-th paragraph; its text is padded as paragraph.text may be
Para(i) == [text |-> <<SP, "s", ToString(i), SP>>, runs |-> RunsOf(i)]
Blank == [text |-> <<SP>>, runs |-> <<>>]

\* the documents of at most n paragraphs; a paragraph may be blank
Docs(n) ==
    UNION {{[i \in 1..k |-> IF i \in B THEN Blank ELSE Para(i)] : B \in SUBSET (1..k)}
           : k \in 0..n}

\* the documents of at most n paragraphs with at most one blank paragraph
LongDocs(n) ==
    UNION {{[i \in 1..k |-> IF i \in B THEN Blank ELSE Para(i)]
            : B \in {{}} \cup {{2} \cap (1..k)}}
           : k \in 0..n}

\* a paragraph of a docx document as the script sees it: paragraph.text and
\* the formatting of paragraph.runs
NewParagraph(p) == [text |-> p.text, runs |-> p.runs]

\* Document(docx_file)
Document(file) == [i \in 1..Len(file) |-> NewParagraph(file[i])]

\* if paragraph.text.strip()
NonEmpty(paragraph) == Strip(paragraph.text) # <<>>

\* len([p for p in doc.paragraphs if p.text.strip()])
TotalParagraphs(d) == Cardinality({i \in 1..Len(d) : NonEmpty(d[i])})

\* the places where a step of the docx library can raise
FormatFaults(rich) ==
    IF rich THEN {"none", "capture", "clear", "add_run", "apply"}
    ELSE {"none", "clear"}
HighlightFaults(rich) ==
    IF rich THEN {"none", "highlight", "color"} ELSE {"none"}

\* the except branch without its bold = True
HighlightRunNoBold(run, highlight, color, fault) ==
    CASE fault = "highlight" -> run
      [] fault = "color" -> [run EXCEPT !.highlight = highlight]
      [] OTHER -> [run EXCEPT !.highlight = highlight, !.color = color,
                              !.bold = "True"]

\* lines 361-366 (268-274, 384-389, 404-410): highlight, colour and bold in
\* a try; when an assignment raises, the except branch sets bold alone
HighlightRun(run, highlight, color, fault) ==
    CASE fault = "highlight" -> [run EXCEPT !.bold = "True"]
      [] fault = "color" -> [run EXCEPT !.highlight = highlight, !.bold = "True"]
      [] OTHER -> [run EXCEPT !.highlight = highlight, !.color = color,
                              !.bold = "True"]

\* paragraph.clear(); run = paragraph.add_run(text); then the highlighting
MarkedParagraph(text, highlight, color, fault) ==
    [text |-> text, runs |-> <<HighlightRun(DefaultRun, highlight, color, fault)>>]

\* `if value`: None, the empty string and 0 count as unset
Truthy(v) == v \notin {"None", "", "0"}

\* the formatting of the last run in place of the first
LastRunFormat(runs) == [runs[Len(runs)] EXCEPT !.highlight = "None"]

\* lines 82-91 and 99: the captured formatting of the first run
FirstRunFormat(runs) == [runs[1] EXCEPT !.highlight = "None"]

\* lines 100-111: the new run with the captured values that are set
StyledRun(fmt) ==
    [DefaultRun EXCEPT
       !.bold = IF fmt.bold # "None" THEN fmt.bold ELSE @,
       !.italic = IF fmt.italic # "None" THEN fmt.italic ELSE @,
       !.underline = IF fmt.underline # "None" THEN fmt.underline ELSE @,
       !.font_name = IF Truthy(fmt.font_name) THEN fmt.font_name ELSE @,
       !.font_size = IF Truthy(fmt.font_size) THEN fmt.font_size ELSE @,
       !.color = IF Truthy(fmt.color) THEN fmt.color ELSE @]

\* lines 77-117: apply_translation_with_formatting; a step that raises ends
\* the try with the paragraph as the steps before it left it
ApplyFormatting(paragraph, text, fault) ==
    CASE fault \in {"capture", "clear"} ->
           [success |-> FALSE, paragraph |-> paragraph]
      [] fault = "add_run" ->
           [success |-> FALSE, paragraph |-> [text |-> <<>>, runs |-> <<>>]]
      [] fault = "apply" ->
           [success |-> FALSE,
            paragraph |-> [text |-> text, runs |-> <<DefaultRun>>]]
      [] OTHER ->
           [success |-> TRUE,
            paragraph |-> [text |-> text,
                           runs |-> <<IF paragraph.runs # <<>>
                                      THEN StyledRun(FirstRunFormat(paragraph.runs))
                                      ELSE DefaultRun>>]]

-----------------------------------------------------------------------------
(* Words, pages and groups of extract_text_with_layout *)

\* line 150: merge_threshold=10
DefaultMergeThreshold == 10

\* the thresholds a call is made with
Thresholds == (0..MaxThreshold) \cup {DefaultMergeThreshold}

\* a word of page.extract_words(); coordinates are whole numbers of the
\* smallest step by which two coordinates can differ
Word(text, x0, top) ==
    [text |-> text, x0 |-> x0, top |-> top, x1 |-> x0 + 1, bottom |-> top + 1]

\* the words a page is made of, placed on and next to the bounds of a
\* threshold t: "b" is t below and 2t right of "a", "c" one step lower than
\* "b", "d" one step further right than 2t from "a"
WordsFor(t) ==
    {Word("a", 0, 0), Word("b", 2 * t + 1, t), Word("c", 0, t + 1),
     Word("d", 2 * t + 2, 0)}

\* the pages of at most k words
PagesUpTo(k, wordset) == UNION {[1..j -> wordset] : j \in 0..k}

\* the pdfs whose pages and words are n together
RECURSIVE Pdfs(_, _)
Pdfs(n, wordset) ==
    IF n = 0 THEN {<<>>}
    ELSE {<<>>} \cup
         UNION {{<<page>> \o rest : rest \in Pdfs(n - 1 - Len(page), wordset)}
                : page \in PagesUpTo(n - 1, wordset)}

Min(a, b) == IF a < b THEN a ELSE b
Max(a, b) == IF a >= b THEN a ELSE b
Abs(a) == IF a >= 0 THEN a ELSE 0 - a

\* no group has been opened yet: current_group is unbound
NoGroup == [text |-> <<>>, bbox |-> <<0, 0, 0, 0>>, page |-> 0, words |-> <<>>]

\* lines 159-164 and 191-196: a group of one word
NewGroup(word, page) ==
    [text |-> <<word.text>>,
     bbox |-> <<word.x0, word.top, word.x1, word.bottom>>,
     page |-> page,
     words |-> <<word>>]

\* the test against the box of the whole group
ShouldMergeGroupBox(word, group, threshold) ==
    /\ Abs(word.top - group.bbox[2]) <= threshold
    /\ word.x0 - group.bbox[3] <= threshold * 2

\* lines 168-172: the test against the last word of the group
ShouldMerge(word, group, threshold) ==
    LET prev_word == group.words[Len(group.words)]
    IN  /\ Abs(word.top - prev_word.top) <= threshold
        /\ word.x0 - prev_word.x1 <= threshold * 2

\* the box of the group replaced by the box of the word
ExtendGroupLastBox(group, word) ==
    [group EXCEPT !.text = @ \o <<SP, word.text>>,
                  !.bbox = <<word.x0, word.top, word.x1, word.bottom>>,
                  !.words = Append(@, word)]

\* lines 175-182: extend the group
ExtendGroup(group, word) ==
    [group EXCEPT !.text = @ \o <<SP, word.text>>,
                  !.bbox = <<Min(@[1], word.x0), Min(@[2], word.top),
                             Max(@[3], word.x1), Max(@[4], word.bottom)>>,
                  !.words = Append(@, word)]

\* lines 185-189 and 199-203: what results.append receives
Emitted(group) == [text |-> group.text, bbox |-> group.bbox, page |-> group.page]

\* the end of a page without lines 198-203
EndOfPageNoFlush(res, group) == res

\* lines 198-203: current_group is a dict of four keys, which is true
EndOfPage(res, group) == Append(res, Emitted(group))

-----------------------------------------------------------------------------
(* The initial state: the script before line 14 *)

ScriptInit(flags, docs, retries) ==
    /\ \E f \in flags : ENABLE_OLLAMA = f[1] /\ ENABLE_NLLB = f[2]
    /\ docx_file \in docs
    /\ max_retries \in retries
    /\ exit_status = "running"
    /\ saved = {}
    /\ doc = <<>>
    /\ doc_ollama = <<>>
    /\ idx = 0
    /\ count = 0
    /\ count_ollama = 0
    /\ translated_context = <<>>
    /\ original_text = <<>>
    /\ attempt = 0
    /\ calls = 0
    /\ prompt = NoPrompt
    /\ result = NoResult
    /\ translated_text = <<>>
    /\ success = FALSE
    /\ log = <<>>

\* extract_text_with_layout(pdf_path, merge_threshold) before line 151
LayoutInit(pdfs, thresholds) ==
    /\ pdf_path \in pdfs
    /\ merge_threshold \in thresholds
    /\ pages_left = pdf_path
    /\ page_num = 0
    /\ words = <<>>
    /\ word_idx = 0
    /\ current_group = NoGroup
    /\ results = <<>>
    /\ emitted_words = <<>>

\* the script never calls extract_text_with_layout
InitWith(flags, docs, retries) ==
    /\ pc = "validate"
    /\ ScriptInit(flags, docs, retries)
    /\ LayoutInit({<<>>}, {DefaultMergeThreshold})

\* any setting of the two flags, the call site's default max_retries
Init == InitWith(BOOLEAN \X BOOLEAN, Docs(MaxUnits), {DefaultMaxRetries})

\* the flags as lines 10-11 set them, every max_retries up to the bound
InitRetries == InitWith({<<TRUE, FALSE>>}, Docs(MaxUnits), 0..MaxRetriesBound)

\* the flags as lines 10-11 set them, documents long enough to fill the window
InitContext == InitWith({<<TRUE, FALSE>>}, LongDocs(MaxCtxUnits), {DefaultMaxRetries})

\* one line of standard output
Line(tag, n, text) == [tag |-> tag, n |-> n, text |-> text]

\* the formattings of a run: nothing set, one attribute set, bold set to
\* False, and everything set
RunFormats ==
    {DefaultRun,
     [DefaultRun EXCEPT !.bold = "True"],
     [DefaultRun EXCEPT !.bold = "False"],
     [DefaultRun EXCEPT !.italic = "True"],
     [DefaultRun EXCEPT !.underline = "False"],
     [DefaultRun EXCEPT !.font_name = "Arial"],
     [DefaultRun EXCEPT !.font_size = "12"],
     [DefaultRun EXCEPT !.color = "GREEN"],
     [DefaultRun EXCEPT !.bold = "True", !.italic = "False", !.underline = "True",
                        !.font_name = "Courier", !.font_size = "9",
                        !.color = "BLACK"]}

\* documents of one paragraph with at most n runs
FormatDocs(n) ==
    {<<[text |-> <<"s", "1">>, runs |-> runs]>> :
        runs \in UNION {[1..k -> RunFormats] : k \in 0..n}}

\* a call of apply_translation_with_formatting on any such paragraph
InitFormat ==
    /\ pc = "format"
    /\ ScriptInit({<<FALSE, TRUE>>}, FormatDocs(MaxRuns), {DefaultMaxRetries})
    /\ LayoutInit({<<>>}, {DefaultMergeThreshold})

\* lines 77-117: apply_translation_with_formatting(paragraph, translated_text,
\* ...) on the paragraph of the document; the except branch prints
FormatCall ==
    /\ pc = "format"
    /\ LET paragraph == NewParagraph(docx_file[1])
           text == Tr(paragraph.text)
       IN  \E f \in FormatFaults(TRUE) :
             LET applied == ApplyFormatting(paragraph, text, f)
             IN  /\ translated_text' = text
                 /\ original_text' = paragraph.text
                 /\ success' = applied.success
                 /\ doc' = <<applied.paragraph>>
                 /\ log' = IF applied.success THEN log
                           ELSE Append(log, Line("FormatError", 0, <<f>>))
    /\ pc' = "format_done"
    /\ UNCHANGED layoutVars
    /\ UNCHANGED <<ENABLE_OLLAMA, ENABLE_NLLB, docx_file, exit_status, saved,
                   doc_ollama, idx, count, count_ollama, translated_context,
                   max_retries, attempt, calls, prompt, result>>

NextFormat == FormatCall

\* one call of apply_translation_with_formatting
SpecFormat == InitFormat /\ [][NextFormat]_vars

\* a call of extract_text_with_layout with any threshold and any pdf whose
\* words lie on and next to the bounds of that threshold
InitLayout ==
    /\ pc = "layout_page"
    /\ ScriptInit({<<TRUE, FALSE>>}, {<<>>}, {DefaultMaxRetries})
    /\ \E t \in Thresholds : LayoutInit(Pdfs(MaxPdfItems, WordsFor(t)), {t})

-----------------------------------------------------------------------------
(* Steps of extract_text_with_layout *)

\* lines 153-164: the next page; a page without words is skipped
LayoutPage ==
    /\ pc = "layout_page"
    /\ pages_left # <<>>
    /\ page_num' = page_num + 1
    /\ words' = Head(pages_left)
    /\ pages_left' = Tail(pages_left)
    /\ IF Head(pages_left) = <<>>
       THEN UNCHANGED <<pc, current_group, word_idx>>
       ELSE /\ current_group' = NewGroup(Head(pages_left)[1], page_num + 1)
            /\ word_idx' = 1
            /\ pc' = "layout_word"
    /\ UNCHANGED <<pdf_path, merge_threshold, results, emitted_words>>
    /\ UNCHANGED scriptVars

\* lines 166-196: the next word of the page
LayoutWord ==
    /\ pc = "layout_word"
    /\ word_idx < Len(words)
    /\ word_idx' = word_idx + 1
    /\ LET word == words[word_idx + 1]
       IN  IF ShouldMerge(word, current_group, merge_threshold)
           THEN /\ current_group' = ExtendGroup(current_group, word)
                /\ UNCHANGED <<results, emitted_words>>
           ELSE /\ results' = Append(results, Emitted(current_group))
                /\ emitted_words' = Append(emitted_words, current_group.words)
                /\ current_group' = NewGroup(word, page_num)
    /\ UNCHANGED <<pc, pdf_path, merge_threshold, pages_left, page_num, words>>
    /\ UNCHANGED scriptVars

\* lines 198-203: the words of the page are used up
LayoutEndOfPage ==
    /\ pc = "layout_word"
    /\ word_idx = Len(words)
    /\ results' = EndOfPage(results, current_group)
    /\ emitted_words' = IF Len(results') > Len(results)
                        THEN Append(emitted_words, current_group.words)
                        ELSE emitted_words
    /\ pc' = "layout_page"
    /\ UNCHANGED <<pdf_path, merge_threshold, pages_left, page_num, words,
                   word_idx, current_group>>
    /\ UNCHANGED scriptVars

\* line 205: return results
LayoutReturn ==
    /\ pc = "layout_page"
    /\ pages_left = <<>>
    /\ pc' = "layout_done"
    /\ UNCHANGED layoutVars
    /\ UNCHANGED scriptVars

NextLayout ==
    \/ LayoutPage
    \/ LayoutWord
    \/ LayoutEndOfPage
    \/ LayoutReturn

\* one call of extract_text_with_layout
SpecLayout == InitLayout /\ [][NextLayout]_vars

-----------------------------------------------------------------------------
(* Steps of the script *)

\* an exception nobody catches ends the script with a traceback
Uncaught(name) ==
    /\ pc' = "done"
    /\ exit_status' = "crash"
    /\ log' = Append(log, Line("Traceback", 0, <<name>>))

\* `or` in place of `and`
ConfigErrorEither(ollama, nllb) == ~ollama \/ ~nllb

\* line 14
ConfigError(ollama, nllb) == ~ollama /\ ~nllb

\* the section that follows the NLLB section (line 295)
AfterNllb == IF ENABLE_OLLAMA THEN "ollama_open" ELSE "summary"

\* lines 13-22: validate the flags
Validate ==
    /\ pc = "validate"
    /\ IF ConfigError(ENABLE_OLLAMA, ENABLE_NLLB)
       THEN pc' = "done" /\ exit_status' = "1"
       ELSE /\ pc' = (IF ENABLE_NLLB THEN "nllb_init" ELSE AfterNllb)
            /\ exit_status' = exit_status
    /\ UNCHANGED <<success, layoutVars>>
    /\ UNCHANGED <<ENABLE_OLLAMA, ENABLE_NLLB, docx_file, saved, doc, doc_ollama,
                   idx, count, count_ollama, translated_context, original_text,
                   max_retries, attempt, calls, prompt, result, translated_text,
                   log>>

\* lines 124-135: load the NLLB model and tokenizer
NllbInit ==
    /\ pc = "nllb_init"
    /\ pc' = "nllb_open"
    /\ UNCHANGED <<success, layoutVars>>
    /\ UNCHANGED <<ENABLE_OLLAMA, ENABLE_NLLB, docx_file, exit_status, saved, doc,
                   doc_ollama, idx, count, count_ollama, translated_context,
                   original_text, max_retries, attempt, calls, prompt, result,
                   translated_text, log>>

\* lines 211-222
NllbOpen ==
    /\ pc = "nllb_open"
    /\ doc' = Document(docx_file)
    /\ count' = 0
    /\ idx' = 0
    /\ pc' = "nllb_loop"
    /\ UNCHANGED <<success, layoutVars>>
    /\ UNCHANGED <<ENABLE_OLLAMA, ENABLE_NLLB, docx_file, exit_status, saved,
                   doc_ollama, count_ollama, translated_context, original_text,
                   max_retries, attempt, calls, prompt, result, translated_text,
                   log>>

\* lines 224-276: one iteration of the NLLB loop
NllbParagraph(rich) ==
    /\ pc = "nllb_loop"
    /\ idx < Len(doc)
    /\ LET paragraph == doc[idx + 1]
           text == Strip(paragraph.text)
           para == Line("Para", count + 1, text)
       IN  IF ~NonEmpty(paragraph)
           THEN /\ idx' = idx + 1
                /\ UNCHANGED <<pc, exit_status, doc, count, original_text,
                               translated_text, success, log>>
           ELSE /\ count' = count + 1
                /\ original_text' = text
                /\ \/ \* lines 251-254: the model raises; the loop has no handler
                      /\ pc' = "done"
                      /\ exit_status' = "crash"
                      /\ log' = log \o <<para, Line("Traceback", 0, <<"ModelError">>)>>
                      /\ UNCHANGED <<idx, doc, translated_text, success>>
                   \/ \E f \in FormatFaults(rich), h \in HighlightFaults(rich) :
                        LET applied == ApplyFormatting(paragraph, Tr(text), f)
                        IN  /\ translated_text' = Tr(text)
                            /\ idx' = idx + 1
                            /\ success' = applied.success
                            /\ doc' = [doc EXCEPT ![idx + 1] =
                                         IF applied.success
                                         THEN applied.paragraph
                                         ELSE MarkedParagraph(NllbFormattingMarker(text),
                                                              "YELLOW", "RED", h)]
                            /\ log' = log \o <<para,
                                               IF applied.success
                                               THEN Line("Translated", count + 1, Tr(text))
                                               ELSE Line("KeepingOriginal", count + 1, text)>>
                            /\ UNCHANGED <<pc, exit_status>>
    /\ UNCHANGED layoutVars
    /\ UNCHANGED <<ENABLE_OLLAMA, ENABLE_NLLB, docx_file, saved, doc_ollama,
                   count_ollama, translated_context, max_retries, attempt, calls,
                   prompt, result>>

\* lines 279-292: the summary divides by total_paragraphs, then doc.save
NllbSave ==
    /\ pc = "nllb_loop"
    /\ idx = Len(doc)
    /\ IF TotalParagraphs(Document(docx_file)) = 0
       THEN Uncaught("ZeroDivisionError") /\ UNCHANGED saved
       ELSE /\ saved' = saved \cup {"NLLB"}
            /\ pc' = AfterNllb
            /\ UNCHANGED <<exit_status, log>>
    /\ UNCHANGED <<success, layoutVars>>
    /\ UNCHANGED <<ENABLE_OLLAMA, ENABLE_NLLB, docx_file, doc, doc_ollama, idx,
                   count, count_ollama, translated_context, original_text,
                   max_retries, attempt, calls, prompt, result, translated_text>>

\* lines 295-310
OllamaOpen ==
    /\ pc = "ollama_open"
    /\ doc_ollama' = Document(docx_file)
    /\ count_ollama' = 0
    /\ translated_context' = <<>>
    /\ idx' = 0
    /\ pc' = "ollama_loop"
    /\ UNCHANGED <<success, layoutVars>>
    /\ UNCHANGED <<ENABLE_OLLAMA, ENABLE_NLLB, docx_file, exit_status, saved, doc,
                   count, original_text, max_retries, attempt, calls, prompt,
                   result, translated_text, log>>

\* lines 312-341: take the next paragraph and call translate_with_context
OllamaParagraph ==
    /\ pc = "ollama_loop"
    /\ idx < Len(doc_ollama)
    /\ idx' = idx + 1
    /\ LET paragraph == doc_ollama[idx + 1]
           text == Strip(paragraph.text)
       IN  IF ~NonEmpty(paragraph)
           THEN UNCHANGED <<pc, count_ollama, original_text, attempt, calls,
                            prompt, result, log>>
           ELSE /\ count_ollama' = count_ollama + 1
                /\ original_text' = text
                /\ log' = Append(log, Line("OllamaPara", count_ollama + 1, text))
                /\ \* the call starts with fresh locals
                   attempt' = 0
                /\ calls' = 0
                /\ prompt' = NoPrompt
                /\ result' = NoResult
                /\ pc' = "attempt"
    /\ UNCHANGED <<success, layoutVars>>
    /\ UNCHANGED <<ENABLE_OLLAMA, ENABLE_NLLB, docx_file, exit_status, saved, doc,
                   doc_ollama, count, translated_context, max_retries,
                   translated_text>>

\* range(max_retries + 2): one retry too many
AttemptRangeLonger(n) == 0..(n + 1)

\* line 28: range(max_retries + 1)
AttemptRange(n) == 0..n

\* lines 28-74: one attempt of translate_with_context
Attempt(rich) ==
    /\ pc = "attempt"
    /\ prompt' = BuildPrompt(original_text,
                             ContextParagraphs(translated_context, attempt))
    /\ calls' = calls + 1
    /\ \/ \* subprocess.run raises: nothing in the function catches it
          /\ pc' = "except"
          /\ UNCHANGED <<result, attempt, translated_text>>
       \/ \E r \in BackendResults(original_text, rich) :
            LET lines == OutputLines(r.stdout)
                k == PrefixedLine(lines)
            IN  /\ result' = r
                /\ IF k > 0
                   THEN /\ translated_text' = ExtractTranslation(lines[k])
                        /\ pc' = "returned"
                        /\ UNCHANGED attempt
                   ELSE IF attempt + 1 \in AttemptRange(max_retries)
                   THEN /\ attempt' = attempt + 1
                        /\ UNCHANGED <<pc, translated_text>>
                   ELSE /\ translated_text' = FailureMarker(max_retries, original_text)
                        /\ pc' = "returned"
                        /\ UNCHANGED attempt
    /\ UNCHANGED <<success, layoutVars>>
    /\ UNCHANGED <<ENABLE_OLLAMA, ENABLE_NLLB, docx_file, exit_status, saved, doc,
                   doc_ollama, idx, count, count_ollama, translated_context,
                   original_text, max_retries, log>>

\* lines 343-375 and 392-412: the loop body after translate_with_context returned
OllamaReturned(rich) ==
    /\ pc = "returned"
    /\ LET t == PostProcess(translated_text)
           paragraph == doc_ollama[idx]
       IN  /\ translated_text' = t
           /\ IF IsFailedTranslation(t)
              THEN \* lines 354-367
                   /\ \E h \in HighlightFaults(rich) :
                        doc_ollama' = [doc_ollama EXCEPT ![idx] =
                                         MarkedParagraph(t, "RED", "WHITE", h)]
                   /\ log' = Append(log, Line("OllamaFailed", count_ollama, t))
                   /\ UNCHANGED <<translated_context, success>>
              ELSE \* lines 369-375, then 392-410
                   /\ \E f \in FormatFaults(rich), h \in HighlightFaults(rich) :
                        LET applied == ApplyFormatting(paragraph, t, f)
                        IN  /\ translated_context' =
                                 ContextAfterFormatting(
                                    RecordContext(translated_context, t),
                                    applied.success)
                            /\ success' = applied.success
                            /\ doc_ollama' = [doc_ollama EXCEPT ![idx] =
                                 IF applied.success
                                 THEN applied.paragraph
                                 ELSE MarkedParagraph(
                                        OllamaFormattingMarker(original_text),
                                        "YELLOW", "BLUE", h)]
                            /\ log' = log \o
                                 <<Line("OllamaTranslated", count_ollama, t),
                                   IF applied.success
                                   THEN Line("OllamaApplied", count_ollama, t)
                                   ELSE Line("OllamaKeepingOriginal", count_ollama,
                                             original_text)>>
    /\ pc' = "ollama_loop"
    /\ UNCHANGED layoutVars
    /\ UNCHANGED <<ENABLE_OLLAMA, ENABLE_NLLB, docx_file, exit_status, saved, doc,
                   idx, count, count_ollama, original_text, max_retries, attempt,
                   calls, prompt, result>>

\* lines 376-390: the loop's handler of an exception out of translate_with_context
OllamaExcept(rich) ==
    /\ pc = "except"
    /\ translated_text' = BackendErrorMarker(original_text)
    /\ \E h \in HighlightFaults(rich) :
         doc_ollama' = [doc_ollama EXCEPT ![idx] =
                          MarkedParagraph(BackendErrorMarker(original_text),
                                          "RED", "WHITE", h)]
    /\ log' = Append(log, Line("OllamaWarning", count_ollama, original_text))
    /\ pc' = "ollama_loop"
    /\ UNCHANGED <<success, layoutVars>>
    /\ UNCHANGED <<ENABLE_OLLAMA, ENABLE_NLLB, docx_file, exit_status, saved, doc,
                   idx, count, count_ollama, translated_context, original_text,
                   max_retries, attempt, calls, prompt, result>>

\* lines 414-431: the summary divides by total_paragraphs_ollama, then save
OllamaSave ==
    /\ pc = "ollama_loop"
    /\ idx = Len(doc_ollama)
    /\ IF TotalParagraphs(Document(docx_file)) = 0
       THEN Uncaught("ZeroDivisionError") /\ UNCHANGED saved
       ELSE /\ saved' = saved \cup {"OLLAMA"}
            /\ pc' = "summary"
            /\ UNCHANGED <<exit_status, log>>
    /\ UNCHANGED <<success, layoutVars>>
    /\ UNCHANGED <<ENABLE_OLLAMA, ENABLE_NLLB, docx_file, doc, doc_ollama, idx,
                   count, count_ollama, translated_context, original_text,
                   max_retries, attempt, calls, prompt, result, translated_text>>

\* lines 433-440
Summary ==
    /\ pc = "summary"
    /\ pc' = "done"
    /\ exit_status' = "0"
    /\ UNCHANGED <<success, layoutVars>>
    /\ UNCHANGED <<ENABLE_OLLAMA, ENABLE_NLLB, docx_file, saved, doc, doc_ollama,
                   idx, count, count_ollama, translated_context, original_text,
                   max_retries, attempt, calls, prompt, result, translated_text,
                   log>>

-----------------------------------------------------------------------------
(* Specifications *)

Next ==
    \/ Validate
    \/ NllbInit
    \/ NllbOpen
    \/ NllbParagraph(FALSE)
    \/ NllbSave
    \/ OllamaOpen
    \/ OllamaParagraph
    \/ Attempt(TRUE)
    \/ OllamaReturned(FALSE)
    \/ OllamaExcept(FALSE)
    \/ OllamaSave
    \/ Summary

\* the script with any flags
Spec == Init /\ [][Next]_vars

NextFaults ==
    \/ Validate
    \/ NllbInit
    \/ NllbOpen
    \/ NllbParagraph(TRUE)
    \/ NllbSave
    \/ OllamaOpen
    \/ OllamaParagraph
    \/ Attempt(FALSE)
    \/ OllamaReturned(TRUE)
    \/ OllamaExcept(TRUE)
    \/ OllamaSave
    \/ Summary

\* the script with any flags, backend outputs of the plain shape and every
\* fault of the docx library that the code has a handler for
SpecFaults == Init /\ [][NextFaults]_vars

\* the steps of a run with the flags of lines 10-11 (Ollama only)
NextOllama(rich) ==
    \/ Validate
    \/ OllamaOpen
    \/ OllamaParagraph
    \/ Attempt(rich)
    \/ OllamaReturned(rich)
    \/ OllamaExcept(rich)
    \/ OllamaSave
    \/ Summary

NextRetries == NextOllama(TRUE)

\* translate_with_context under every max_retries
SpecRetries == InitRetries /\ [][NextRetries]_vars

NextContext == NextOllama(FALSE)

\* long documents, backend outputs of the plain shape
SpecContext == InitContext /\ [][NextContext]_vars

-----------------------------------------------------------------------------
(* Vocabulary of the properties *)

Last(s) == s[Len(s)]


\* the lines of standard output with a tag
IsTranslatedLine(l) == l.tag = "OllamaTranslated"
TaggedLines(tag) == {i \in 1..Len(log) : log[i].tag = tag}

\* the texts the Ollama loop has reported as translated, oldest first
Successes ==
    LET lines == SelectSeq(log, IsTranslatedLine)
    IN  [i \in 1..Len(lines) |-> lines[i].text]

\* a translate_with_context call is running or has just ended, and has invoked
\* the backend
InCall == pc \in {"attempt", "returned", "except"} /\ calls >= 1

\* the indices of the prefixed lines of the last backend output
PrefixedLines == {k \in 1..Len(OutputLines(result.stdout)) :
                     StartsWithPrefix(OutputLines(result.stdout)[k])}

\* the function came back from line 74: its last output had no prefixed line
Exhausted == pc = "returned" /\ PrefixedLines = {}

\* the function came back from line 67
Answered == pc = "returned" /\ PrefixedLines # {}

-----------------------------------------------------------------------------
(* C1: for every max_retries = N >= 0, a unit whose backend output has no    *)
(* prefixed line on any attempt makes translate_with_context invoke the      *)
(* backend exactly N + 1 times and then return the failure text that reports *)
(* exactly N retries: while the call runs it has made at most N invocations  *)
(* before the next one, and it comes back from line 74 after N + 1.          *)
C1_ExactlyMaxRetries ==
    /\ pc = "attempt" => calls <= max_retries
    /\ Exhausted =>
         /\ calls = max_retries + 1
         /\ translated_text =
              <<"[TRANSLATION FAILED AFTER", " ", ToString(max_retries), " ",
                "RETRIES]", " ">> \o original_text

C1_Witness ==
    /\ Exhausted
    /\ max_retries = 2
    /\ calls = 3

-----------------------------------------------------------------------------
\* the unit count_ollama has just been reported as translated by this step
ReportsTranslated ==
    \E i \in (Len(log) + 1)..Len(log') : log'[i].tag = "OllamaTranslated"

(* C2: in every state of the Ollama run the context window                   *)
(* translated_context holds at most 5 entries, and a step that records a     *)
(* translation appends it at the end: into a window of 5 it drops the oldest *)
(* entry and keeps the other four in their order, into a shorter window it   *)
(* drops nothing.                                                            *)
C2_WindowBoundedFifo ==
    /\ [](Len(translated_context) <= 5)
    /\ [][ReportsTranslated =>
            translated_context' =
              (IF Len(translated_context) = 5
               THEN SubSeq(translated_context, 2, 5)
               ELSE translated_context) \o <<translated_text'>>]_vars

\* the sixth success has pushed the first one out
C2_Witness ==
    /\ Len(translated_context) = 5
    /\ Len(Successes) = 6
    /\ translated_context[1] = Successes[2]
    /\ translated_context[5] = Successes[6]

(* C3: for every invocation of the backend, the context lines of the prompt  *)
(* are the min(3, number of earlier units reported as translated) most       *)
(* recent translations, numbered from 1, the oldest first and the most       *)
(* recent last; there are never more than 3 of them, whatever the window     *)
(* holds.                                                                    *)
C3_PromptShowsLastThree ==
    InCall =>
        LET n == Len(Successes)
            m == Min(3, n)
        IN  /\ Len(prompt.context) = m
            /\ Len(prompt.context) <= 3
            /\ \A i \in 1..m :
                 /\ prompt.context[i].label = i
                 /\ prompt.context[i].ctx = Successes[n - m + i]
            /\ prompt.text = original_text

\* the window is full and the prompt shows its last three entries only
C3_Witness ==
    /\ InCall
    /\ Len(translated_context) = 5
    /\ Len(prompt.context) = 3
    /\ prompt.context[1].ctx = translated_context[3]
    /\ prompt.context[3].ctx = translated_context[5]

\* the first invocation of the backend for a unit
FirstCall == pc = "attempt" /\ calls = 0 /\ calls' = 1

\* the outcome lines of unit n
OutcomeTags(n) ==
    {log[i].tag : i \in {j \in 1..Len(log) :
                           /\ log[j].n = n
                           /\ log[j].tag \in {"OllamaTranslated", "OllamaFailed",
                                              "OllamaWarning"}}}

(* C4: a unit reported as translated puts its translated text at the end of  *)
(* the context window, and that text is the last context line of the prompt  *)
(* of the unit that follows it; a unit that ends with the failure text of    *)
(* line 74 or in the except branch leaves the context window as it was, and  *)
(* so does every attempt.                                                    *)
C4_SuccessFeedsNextUnit ==
    [][/\ ReportsTranslated =>
            /\ translated_context' # <<>>
            /\ Last(translated_context') = translated_text'
       /\ (FirstCall /\ "OllamaTranslated" \in OutcomeTags(count_ollama - 1)) =>
            /\ prompt'.context # <<>>
            /\ \E i \in TaggedLines("OllamaTranslated") :
                 /\ log[i].n = count_ollama - 1
                 /\ Last(prompt'.context).ctx = log[i].text
       /\ (Exhausted \/ pc \in {"attempt", "except"}) =>
            translated_context' = translated_context]_vars

\* a unit follows a translated one and a failed one follows it
C4_Witness ==
    /\ pc = "ollama_loop"
    /\ count_ollama = 3
    /\ OutcomeTags(1) = {"OllamaTranslated"}
    /\ OutcomeTags(2) = {"OllamaFailed"}
    /\ OutcomeTags(3) = {"OllamaWarning"}
    /\ translated_context = <<Successes[1]>>

-----------------------------------------------------------------------------
(* C5: when the output of some attempt of a unit carries a prefixed line,    *)
(* the unit ends as a success: it is reported as translated, its text is     *)
(* the last entry of the context window and the paragraph is not marked as   *)
(* failed; and the backend is not invoked again for that unit.               *)
C5_AnswerIsSuccess ==
    /\ (pc = "attempt" /\ calls >= 1) => PrefixedLines = {}
    /\ (pc = "ollama_loop" /\ calls >= 1 /\ PrefixedLines # {}) =>
         /\ OutcomeTags(count_ollama) = {"OllamaTranslated"}
         /\ translated_context # <<>>
         /\ Last(translated_context) = translated_text
         /\ doc_ollama[idx].runs[1].highlight # "RED"

(* C6: when the external process invocation faults (a non-zero exit status,  *)
(* or an exception out of the call), the backend is not invoked again for    *)
(* the unit, the function does not come back with a result and the unit      *)
(* ends in the except branch of the loop, never as a failed translation.     *)
C6_FaultIsBackendError ==
    /\ (calls >= 1 /\ result.returncode # 0) => pc \notin {"attempt", "returned"}
    /\ (pc = "ollama_loop" /\ calls >= 1 /\ result.returncode # 0) =>
         OutcomeTags(count_ollama) = {"OllamaWarning"}

(* C7 as claimed: no exception comes out of translate_with_context into the  *)
(* loop, whatever the external call does.                                    *)
C7_NeverPropagates == pc # "except"

(* C7 as amended: translate_with_context returns a string whenever the       *)
(* external calls it made returned, whatever their exit status: the cleaned  *)
(* text of the first prefixed line of the last output if there is one, else  *)
(* the failure text of line 74; an exception raised by the external call is  *)
(* not caught in the function: it reaches the loop, whose except branch      *)
(* takes it while the script keeps running, and no call ends the script.     *)
C7_ReturnsOrPropagates ==
    /\ pc = "returned" =>
         /\ calls >= 1
         /\ IF PrefixedLines = {}
            THEN translated_text =
                   <<"[TRANSLATION FAILED AFTER", " ", ToString(max_retries), " ",
                     "RETRIES]", " ">> \o original_text
            ELSE \E k \in PrefixedLines :
                   /\ \A j \in PrefixedLines : k <= j
                   /\ translated_text =
                        ExtractTranslation(OutputLines(result.stdout)[k])
    /\ pc = "except" => (calls >= 1 /\ exit_status = "running")
    /\ exit_status = "crash" => calls = 0

\* an exception out of the second invocation is on its way to the loop
C7_Witness ==
    /\ pc = "except"
    /\ calls = 2
    /\ result.returncode = 1

-----------------------------------------------------------------------------
\* the texts of the non-empty paragraphs of a document, in source order
IsNonBlankText(p) == Strip(p.text) # <<>>
Units(file) ==
    LET kept == SelectSeq(file, IsNonBlankText)
    IN  [i \in 1..Len(kept) |-> Strip(kept[i].text)]

\* the texts of the lines of standard output with a tag, in order
TextsOf(tag) ==
    LET lines == SelectSeq(log, LAMBDA l : l.tag = tag)
    IN  [i \in 1..Len(lines) |-> lines[i].text]

\* the number of lines of standard output about unit n with a tag in tags
OutcomeCount(tags, n) ==
    Cardinality({i \in 1..Len(log) : log[i].n = n /\ log[i].tag \in tags})

(* C8: in a run that passed the flag validation and has ended, each enabled  *)
(* loop has taken every non-empty paragraph exactly once, in source order,   *)
(* and has given each exactly one outcome.                                   *)
C8_EveryUnitOneOutcome ==
    (pc = "done" /\ exit_status # "1") =>
        /\ ENABLE_NLLB =>
             /\ TextsOf("Para") = Units(docx_file)
             /\ \A n \in 1..Len(Units(docx_file)) :
                  OutcomeCount({"Translated", "KeepingOriginal"}, n) = 1
        /\ ENABLE_OLLAMA =>
             /\ TextsOf("OllamaPara") = Units(docx_file)
             /\ \A n \in 1..Len(Units(docx_file)) :
                  OutcomeCount({"OllamaTranslated", "OllamaFailed",
                                "OllamaWarning"}, n) = 1

(* C9: a run with at least one backend enabled that has ended has written    *)
(* the output artifact of every enabled backend.                             *)
C9_RunSavesArtifacts ==
    (pc = "done" /\ (ENABLE_OLLAMA \/ ENABLE_NLLB)) =>
        saved = (IF ENABLE_NLLB THEN {"NLLB"} ELSE {})
                \cup (IF ENABLE_OLLAMA THEN {"OLLAMA"} ELSE {})

(* C10: with both flags false the script goes from the validation straight   *)
(* to its end with status 1: no document is opened, no unit is read or       *)
(* translated, nothing is written and nothing is saved; with a flag true the *)
(* script never ends with status 1.                                          *)
C10_NoBackendFailsFast ==
    /\ (~ENABLE_OLLAMA /\ ~ENABLE_NLLB) =>
         /\ pc \in {"validate", "done"}
         /\ pc = "done" => exit_status = "1"
         /\ saved = {}
         /\ doc = <<>> /\ doc_ollama = <<>>
         /\ count = 0 /\ count_ollama = 0 /\ calls = 0
         /\ log = <<>>
    /\ (ENABLE_OLLAMA \/ ENABLE_NLLB) => exit_status # "1"

\* the script has ended with status 1 on a document with paragraphs to translate
C10_Witness ==
    /\ ~ENABLE_OLLAMA /\ ~ENABLE_NLLB
    /\ pc = "done"
    /\ exit_status = "1"
    /\ Len(Units(docx_file)) >= 1

-----------------------------------------------------------------------------
(* Groups of extract_text_with_layout *)

\* the member words of every group: those appended to results and, while a
\* page is being read, the open group
GroupWords ==
    IF pc = "layout_word" THEN Append(emitted_words, current_group.words)
    ELSE emitted_words

\* the groups with their text, box and page, the open group included
Groups ==
    IF pc = "layout_word" THEN Append(results, Emitted(current_group))
    ELSE results

\* the second word is within both bounds of the first
IsClose(prev, word) ==
    /\ word.top - prev.top <= merge_threshold
    /\ prev.top - word.top <= merge_threshold
    /\ word.x0 - prev.x1 <= 2 * merge_threshold

\* the second word is on a bound of the first
OnBound(prev, word) ==
    /\ word.top - prev.top = merge_threshold
    /\ word.x0 - prev.x1 = 2 * merge_threshold

\* the second word is one step beyond a bound of the first
OneBeyond(prev, word) ==
    \/ word.top - prev.top = merge_threshold + 1
    \/ word.x0 - prev.x1 = 2 * merge_threshold + 1

(* C11: for every threshold, two consecutive words of a page are in the same *)
(* group if and only if the second is within both bounds of the first, the   *)
(* bounds included: the vertical distance of their tops is at most the       *)
(* threshold and the gap from the right of the first to the left of the      *)
(* second is at most twice the threshold.  The test is against the word      *)
(* before, never against the box of the group.                               *)
C11_MergeIffWithinBounds ==
    /\ \A g \in 1..Len(GroupWords) :
         \A k \in 1..(Len(GroupWords[g]) - 1) :
            IsClose(GroupWords[g][k], GroupWords[g][k + 1])
    /\ \A g \in 1..(Len(GroupWords) - 1) :
         Groups[g].page = Groups[g + 1].page =>
            ~IsClose(Last(GroupWords[g]), GroupWords[g + 1][1])

\* a call has returned a group of three words whose third word is on the
\* bounds of the second but outside the box of the first two, and two groups
\* of one page whose words are one step beyond a bound
C11_Witness ==
    /\ pc = "layout_done"
    /\ merge_threshold = DefaultMergeThreshold
    /\ \E g \in 1..Len(emitted_words) :
         /\ Len(emitted_words[g]) = 3
         /\ OnBound(emitted_words[g][1], emitted_words[g][2])
         /\ emitted_words[g][3].top - emitted_words[g][1].top > merge_threshold
    /\ \E g \in 1..(Len(emitted_words) - 1) :
         /\ results[g].page = results[g + 1].page
         /\ OneBeyond(Last(emitted_words[g]), emitted_words[g + 1][1])

\* the text of a group of words: the words' texts with one space between
JoinedText(ws) ==
    [i \in 1..(2 * Len(ws) - 1) |-> IF i % 2 = 1 THEN ws[(i + 1) \div 2].text ELSE SP]

\* m is the least (most = FALSE) or the greatest of the values
IsExtreme(m, values, most) ==
    /\ m \in values
    /\ \A v \in values : IF most THEN v <= m ELSE m <= v

(* C12: the box of every group is (least left, least top, greatest right,    *)
(* greatest bottom) over exactly the words of the group, and its text is the *)
(* texts of these words in their order with a single space between them.     *)
C12_BoxIsUnionOfWords ==
    \A g \in 1..Len(Groups) :
        LET ws == GroupWords[g]
            of(f(_)) == {f(ws[k]) : k \in 1..Len(ws)}
            X0(w) == w.x0
            Top(w) == w.top
            X1(w) == w.x1
            Bottom(w) == w.bottom
        IN  /\ ws # <<>>
            /\ IsExtreme(Groups[g].bbox[1], of(X0), FALSE)
            /\ IsExtreme(Groups[g].bbox[2], of(Top), FALSE)
            /\ IsExtreme(Groups[g].bbox[3], of(X1), TRUE)
            /\ IsExtreme(Groups[g].bbox[4], of(Bottom), TRUE)
            /\ Groups[g].text = JoinedText(ws)

\* a call has returned a group of two words whose box is the box of neither
C12_Witness ==
    /\ pc = "layout_done"
    /\ \E g \in 1..Len(results) :
         /\ Len(emitted_words[g]) = 2
         /\ \A k \in 1..2 :
              LET w == emitted_words[g][k]
              IN  results[g].bbox # <<w.x0, w.top, w.x1, w.bottom>>

RECURSIVE Flatten(_)
Flatten(seqs) == IF seqs = <<>> THEN <<>> ELSE Head(seqs) \o Flatten(Tail(seqs))

\* the words of the groups appended for page p, in the order of results
WordsOfGroupsOf(p) ==
    LET all == [g \in 1..Len(results) |-> g]
        ofPage == SelectSeq(all, LAMBDA g : results[g].page = p)
    IN  Flatten([n \in 1..Len(ofPage) |-> emitted_words[ofPage[n]]])

(* C13: whenever the function is between two pages or has returned, the      *)
(* groups appended for each page read so far hold the words of that page,    *)
(* each word once and in order; every group has a word and belongs to one    *)
(* page, the groups are in the order of the pages, and a page without words  *)
(* has no group.  The function returns after the last page.                  *)
C13_GroupsPartitionPages ==
    /\ pc \in {"layout_page", "layout_done"} =>
         /\ Len(emitted_words) = Len(results)
         /\ \A p \in 1..page_num : WordsOfGroupsOf(p) = pdf_path[p]
         /\ \A g \in 1..Len(results) :
              /\ results[g].page \in 1..page_num
              /\ emitted_words[g] # <<>>
         /\ \A g \in 1..(Len(results) - 1) : results[g].page <= results[g + 1].page
    /\ pc = "layout_done" => page_num = Len(pdf_path)

\* a call has returned for a pdf whose first page gave two groups, whose
\* second page has no words and whose third page gave a group
C13_Witness ==
    /\ pc = "layout_done"
    /\ Len(pdf_path) = 3
    /\ pdf_path[2] = <<>>
    /\ Len(results) = 3
    /\ results[2].page = 1
    /\ results[3].page = 3

-----------------------------------------------------------------------------
(* What a unit shows in the destination document *)

\* the indices of the non-empty paragraphs of the source document
UnitIndexes ==
    SelectSeq([i \in 1..Len(docx_file) |-> i],
              LAMBDA i : IsNonBlankText(docx_file[i]))

\* the paragraph of document d that holds unit n
ParagraphOfUnit(d, n) == d[UnitIndexes[n]]

\* a paragraph of one span with a text, a background and a text colour, bold
Shows(paragraph, text, highlight, color) ==
    /\ paragraph.text = text
    /\ paragraph.runs = <<[DefaultRun EXCEPT !.highlight = highlight,
                                             !.color = color,
                                             !.bold = "True"]>>

\* the same, or what is left of the styling when setting the background or
\* the text colour raised: bold alone, or the background and bold
ShowsOrBold(paragraph, text, highlight, color) ==
    \/ Shows(paragraph, text, highlight, color)
    \/ Shows(paragraph, text, highlight, "None")
    \/ Shows(paragraph, text, "None", "None")

\* the lines of standard output with a tag
LinesOf(tag) == {log[i] : i \in TaggedLines(tag)}

(* C14 as claimed: a unit whose translation succeeded and whose formatting   *)
(* was reported as failed shows "[TRANSLATION ERROR - MANUAL REVIEW NEEDED] " *)
(* and the original text, on yellow, bold and red, in the NLLB loop and in   *)
(* the Ollama loop.                                                          *)
C14_OneMarkerBothLoops ==
    /\ \A l \in LinesOf("KeepingOriginal") :
         Shows(ParagraphOfUnit(doc, l.n),
               <<"[TRANSLATION ERROR - MANUAL REVIEW NEEDED]", SP>> \o l.text,
               "YELLOW", "RED")
    /\ \A l \in LinesOf("OllamaKeepingOriginal") :
         Shows(ParagraphOfUnit(doc_ollama, l.n),
               <<"[TRANSLATION ERROR - MANUAL REVIEW NEEDED]", SP>> \o l.text,
               "YELLOW", "RED")

(* C14 as amended: such a unit shows a marker and the original text in one   *)
(* bold span: in the NLLB loop "[TRANSLATION ERROR - MANUAL REVIEW NEEDED] "  *)
(* on yellow in red, in the Ollama loop                                      *)
(* "[OLLAMA FORMATTING ERROR - MANUAL REVIEW NEEDED] " on yellow in blue;    *)
(* when setting the background raises the span is bold without colours,      *)
(* when setting the text colour raises it is bold on yellow.                 *)
C14_MarkerOfEachLoop ==
    /\ \A l \in LinesOf("KeepingOriginal") :
         ShowsOrBold(ParagraphOfUnit(doc, l.n),
                     <<"[TRANSLATION ERROR - MANUAL REVIEW NEEDED]", SP>> \o l.text,
                     "YELLOW", "RED")
    /\ \A l \in LinesOf("OllamaKeepingOriginal") :
         ShowsOrBold(ParagraphOfUnit(doc_ollama, l.n),
                     <<"[OLLAMA FORMATTING ERROR - MANUAL REVIEW NEEDED]", SP>>
                        \o l.text,
                     "YELLOW", "BLUE")

\* a run of both loops has ended in which the formatting of a unit failed in
\* each loop and both units show their marker in full colours
C14_Witness ==
    /\ pc = "done"
    /\ exit_status = "0"
    /\ \E l \in LinesOf("KeepingOriginal") :
         Shows(ParagraphOfUnit(doc, l.n), NllbFormattingMarker(l.text),
               "YELLOW", "RED")
    /\ \E l \in LinesOf("OllamaKeepingOriginal") :
         Shows(ParagraphOfUnit(doc_ollama, l.n), OllamaFormattingMarker(l.text),
               "YELLOW", "BLUE")

\* the formatting function was called for unit n of the Ollama loop
FormatterInvoked(n) ==
    \E l \in LinesOf("OllamaApplied") \cup LinesOf("OllamaKeepingOriginal") : l.n = n

(* C15 as claimed: a unit whose call of translate_with_context raised shows  *)
(* "[BACKEND ERROR] " and the original text, on red, bold and white, and the *)
(* formatting function is not called for it.                                 *)
C15_BackendErrorMarker ==
    \A l \in LinesOf("OllamaWarning") :
        /\ Shows(ParagraphOfUnit(doc_ollama, l.n),
                 <<"[BACKEND ERROR]", SP>> \o l.text, "RED", "WHITE")
        /\ ~FormatterInvoked(l.n)

(* C15 as amended: such a unit of the Ollama loop shows                      *)
(* "[OLLAMA TRANSLATION FAILED] " and the original text in one bold span, on *)
(* red in white (bold without colours when setting the background raises,    *)
(* bold on red when setting the text colour raises), and the formatting      *)
(* function is not called for it.                                            *)
C15_OllamaFailedMarker ==
    \A l \in LinesOf("OllamaWarning") :
        /\ l.text = Units(docx_file)[l.n]
        /\ ShowsOrBold(ParagraphOfUnit(doc_ollama, l.n),
                       <<"[OLLAMA TRANSLATION FAILED]", SP>> \o l.text,
                       "RED", "WHITE")
        /\ ~FormatterInvoked(l.n)

\* the run has ended; the backend call of a unit raised and the unit shows
\* the marker on red in white
C15_Witness ==
    /\ pc = "done"
    /\ exit_status = "0"
    /\ \E l \in LinesOf("OllamaWarning") :
         Shows(ParagraphOfUnit(doc_ollama, l.n), BackendErrorMarker(l.text),
               "RED", "WHITE")

\* paragraphs the loop has passed are not written again
PassedUnitsKept ==
    \A i \in 1..Len(doc_ollama) : i < idx => doc_ollama'[i] = doc_ollama[i]

(* C16 as claimed: when translate_with_context comes back from line 74 with  *)
(* max_retries = n, the unit shows "[TRANSLATION FAILED AFTER n RETRIES] "   *)
(* and the original text, on red, bold and white; the formatting function is *)
(* not called for it, and the unit is not written again.                     *)
C16_FailedAfterRetriesShown ==
    [][/\ PassedUnitsKept
       /\ Exhausted =>
            /\ Shows(doc_ollama'[idx],
                     <<"[TRANSLATION FAILED AFTER", SP, ToString(max_retries), SP,
                       "RETRIES]", SP>> \o Units(docx_file)[count_ollama],
                     "RED", "WHITE")
            /\ pc' = "ollama_loop"
            /\ ~FormatterInvoked(count_ollama)']_vars

(* C16 as amended: such a unit shows "[TRANSLATION FAILED AFTER n RETRIES] " *)
(* and the original text, unmodified, in one bold span, on red in white;     *)
(* the span is bold without colours when setting the background raises and   *)
(* bold on red when setting the text colour raises.  The formatting function *)
(* is not called for it, and the unit is not written again.                  *)
C16_FailedAfterRetriesMarked ==
    [][/\ PassedUnitsKept
       /\ Exhausted =>
            /\ ShowsOrBold(doc_ollama'[idx],
                           <<"[TRANSLATION FAILED AFTER", SP, ToString(max_retries),
                             SP, "RETRIES]", SP>> \o Units(docx_file)[count_ollama],
                           "RED", "WHITE")
            /\ pc' = "ollama_loop"
            /\ ~FormatterInvoked(count_ollama)']_vars

\* a unit has used up three retries and shows the marker on red in white
C16_Witness ==
    /\ pc = "ollama_loop"
    /\ max_retries = 3
    /\ calls = 4
    /\ PrefixedLines = {}
    /\ Last(log).tag = "OllamaFailed"
    /\ Shows(doc_ollama[idx], FailureMarker(3, original_text), "RED", "WHITE")

-----------------------------------------------------------------------------
\* the answer of the last backend output: what follows the prefix on the
\* first prefixed line, without the whitespace around it
ExtractedAnswer ==
    LET lines == OutputLines(result.stdout)
        k == CHOOSE i \in PrefixedLines : \A j \in PrefixedLines : i <= j
    IN  Strip(Tail(lines[k]))

\* the text without a pair of quotation marks around it, if it has one
WithoutOnePair(s) ==
    IF Wrapped(s, DQ) \/ Wrapped(s, SQ) THEN SubSeq(s, 2, Len(s) - 1) ELSE s

(* C17: when the Ollama loop reports a unit as translated, the text it       *)
(* delivers (to the report, the context window and the formatting) is the    *)
(* extracted answer without one pair of double or single quotation marks     *)
(* around it, and the answer itself when it has no such pair.                *)
C17_OneQuotePairRemoved ==
    [][(Answered /\ ReportsTranslated) =>
          translated_text' = WithoutOnePair(ExtractedAnswer)]_vars

-----------------------------------------------------------------------------
\* the last three entries of the window, or all of them when there are fewer
WindowSnapshot ==
    LET n == Len(translated_context)
        m == Min(n, 3)
    IN  [i \in 1..m |-> translated_context[n - m + i]]

\* the context entries of a prompt
ContextOf(p) == [i \in 1..Len(p.context) |-> p.context[i].ctx]

(* C18: the first invocation of a unit shows the backend the window as it is *)
(* when the call starts, every further invocation of the same call is made   *)
(* with the same context and the same text as the one before it, and no      *)
(* step of translate_with_context changes the window.                        *)
C18_RetriesShareSnapshot ==
    [][/\ FirstCall => ContextOf(prompt') = WindowSnapshot
       /\ (pc = "attempt" /\ calls >= 1 /\ calls' = calls + 1) => prompt' = prompt
       /\ pc = "attempt" => translated_context' = translated_context]_vars

\* three invocations of a unit have been made with a context that is not
\* empty, none of them with an answer
C18_Witness ==
    /\ pc = "attempt"
    /\ calls = 3
    /\ attempt = 3
    /\ prompt.context # <<>>
    /\ PrefixedLines = {}

-----------------------------------------------------------------------------
\* the attributes apply_translation_with_formatting carries over
CarriedAttributes ==
    {"bold", "italic", "underline", "font_name", "font_size", "color"}

\* the first run of the paragraph before the call sets attribute a
SetInFirstRun(a) ==
    /\ docx_file[1].runs # <<>>
    /\ docx_file[1].runs[1][a] # "None"

-----------------------------------------------------------------------------
\* what the Ollama loop writes for a line of standard output that reports a
\* unit as not translated or not formatted
MarkerTextOf(l) ==
    CASE l.tag = "OllamaKeepingOriginal" ->
           <<"[OLLAMA FORMATTING ERROR - MANUAL REVIEW NEEDED]", SP>> \o l.text
      [] l.tag = "OllamaWarning" ->
           <<"[OLLAMA TRANSLATION FAILED]", SP>> \o l.text
      [] OTHER -> l.text

FailureTags == {"OllamaKeepingOriginal", "OllamaFailed", "OllamaWarning"}

(* C20: for every unit the Ollama loop ends with a formatting fallback, a    *)
(* failed translation or a backend exception, the paragraph holds the marker *)
(* text in exactly one run and that run is bold, whether or not setting the  *)
(* background or the text colour raised; the loop goes on with the next      *)
(* unit, and the run does not end with an uncaught exception.                *)
C20_MarkerWrittenAndBold ==
    /\ \A i \in 1..Len(log) :
         log[i].tag \in FailureTags =>
            /\ ParagraphOfUnit(doc_ollama, log[i].n).text = MarkerTextOf(log[i])
            /\ Len(ParagraphOfUnit(doc_ollama, log[i].n).runs) = 1
            /\ ParagraphOfUnit(doc_ollama, log[i].n).runs[1].bold = "True"
            /\ i < Len(log) => log[i + 1].tag = "OllamaPara"
            /\ i = Len(log) => pc \in {"ollama_loop", "summary", "done"}
    /\ TaggedLines("OllamaPara") # {} => exit_status \in {"running", "0"}

\* the run has ended; setting the background raised for the first unit, a
\* failed translation, which is bold without colours, and setting the text
\* colour raised for the second, a backend exception, which is bold on red
C20_Witness ==
    /\ pc = "done"
    /\ \E i, j \in 1..Len(log) :
         /\ log[i].tag = "OllamaFailed" /\ log[i].n = 1
         /\ Shows(ParagraphOfUnit(doc_ollama, 1), log[i].text, "None", "None")
         /\ log[j].tag = "OllamaWarning" /\ log[j].n = 2
         /\ Shows(ParagraphOfUnit(doc_ollama, 2), MarkerTextOf(log[j]),
                  "RED", "None")

-----------------------------------------------------------------------------
\* the lines of standard output about unit n with a tag
LinesOfUnit(tag, n) == {l \in LinesOf(tag) : l.n = n}

\* the step reports that the formatting of the unit failed
ReportsKeepingOriginal ==
    \E i \in (Len(log) + 1)..Len(log') : log'[i].tag = "OllamaKeepingOriginal"

(* C21: in the Ollama loop a step that reports a unit as translated puts the *)
(* translated text at the end of the context window whether the formatting   *)
(* succeeds or fails, and when it fails the paragraph shows the marker and   *)
(* the original text, not the translation; a step that does not report a     *)
(* translation leaves the window as it is.  The first invocation of the next *)
(* unit shows the translated text of a unit whose formatting failed as its   *)
(* last context line.                                                        *)
C21_AdmissionIgnoresFormatting ==
    [][/\ (pc = "returned" /\ ReportsTranslated) =>
            /\ translated_context' # <<>>
            /\ Last(translated_context') = translated_text'
            /\ ReportsKeepingOriginal =>
                 /\ doc_ollama'[idx].text =
                      <<"[OLLAMA FORMATTING ERROR - MANUAL REVIEW NEEDED]", SP>>
                         \o original_text
                 /\ doc_ollama'[idx].text # translated_text'
       /\ (pc \in {"returned", "except"} /\ ~ReportsTranslated) =>
            translated_context' = translated_context
       /\ (FirstCall /\ count_ollama >= 2) =>
            \A l \in LinesOfUnit("OllamaTranslated", count_ollama - 1) :
               LinesOfUnit("OllamaKeepingOriginal", count_ollama - 1) # {} =>
                  /\ prompt'.context # <<>>
                  /\ Last(ContextOf(prompt')) = l.text]_vars

\* the second unit has been sent to the backend with the translation of the
\* first unit as its last context line, while the paragraph of the first
\* unit shows the marker and the original text
C21_Witness ==
    /\ pc = "attempt"
    /\ calls = 1
    /\ count_ollama = 2
    /\ LinesOfUnit("OllamaKeepingOriginal", 1) # {}
    /\ \E l \in LinesOfUnit("OllamaTranslated", 1) :
         /\ prompt.context # <<>>
         /\ Last(ContextOf(prompt)) = l.text
         /\ ParagraphOfUnit(doc_ollama, 1).text # l.text
    /\ ParagraphOfUnit(doc_ollama, 1).text =
         OllamaFormattingMarker(Units(docx_file)[1])

====
